---------------------------- MODULE Spec2Model ----------------------------
(***************************************************************************)
(* EGTS packet builder of egts-emul.py: the EGTStrack session object, its  *)
(* two operations add_service (append a subrecord) and new_message         *)
(* (finalize a packet), and the two table-driven checksums.                *)
(*                                                                         *)
(* Bytes objects are sequences of integers 0..255.  Python's None is the   *)
(* value None below, which is no byte string.  Integers stay below 2^31,   *)
(* so every 4-byte field is built byte by byte.                            *)
(***************************************************************************)
EXTENDS Integers, Sequences, FiniteSets, TLC

(* CRC8_TABLE, lines 13-46 *)
CRC8_TABLE ==
  <<
    0, 49, 98, 83, 196, 245, 166, 151,
    185, 136, 219, 234, 125, 76, 31, 46,
    67, 114, 33, 16, 135, 182, 229, 212,
    250, 203, 152, 169, 62, 15, 92, 109,
    134, 183, 228, 213, 66, 115, 32, 17,
    63, 14, 93, 108, 251, 202, 153, 168,
    197, 244, 167, 150, 1, 48, 99, 82,
    124, 77, 30, 47, 184, 137, 218, 235,
    61, 12, 95, 110, 249, 200, 155, 170,
    132, 181, 230, 215, 64, 113, 34, 19,
    126, 79, 28, 45, 186, 139, 216, 233,
    199, 246, 165, 148, 3, 50, 97, 80,
    187, 138, 217, 232, 127, 78, 29, 44,
    2, 51, 96, 81, 198, 247, 164, 149,
    248, 201, 154, 171, 60, 13, 94, 111,
    65, 112, 35, 18, 133, 180, 231, 214,
    122, 75, 24, 41, 190, 143, 220, 237,
    195, 242, 161, 144, 7, 54, 101, 84,
    57, 8, 91, 106, 253, 204, 159, 174,
    128, 177, 226, 211, 68, 117, 38, 23,
    252, 205, 158, 175, 56, 9, 90, 107,
    69, 116, 39, 22, 129, 176, 227, 210,
    191, 142, 221, 236, 123, 74, 25, 40,
    6, 55, 100, 85, 194, 243, 160, 145,
    71, 118, 37, 20, 131, 178, 225, 208,
    254, 207, 156, 173, 58, 11, 88, 105,
    4, 53, 102, 87, 192, 241, 162, 147,
    189, 140, 223, 238, 121, 72, 27, 42,
    193, 240, 163, 146, 5, 52, 103, 86,
    120, 73, 26, 43, 188, 141, 222, 239,
    130, 179, 224, 209, 70, 119, 36, 21,
    59, 10, 89, 104, 255, 206, 157, 172
  >>

(* CRC16_TABLE, lines 48-92 *)
CRC16_TABLE ==
  <<
    0, 4129, 8258, 12387, 16516, 20645, 24774, 28903,
    33032, 37161, 41290, 45419, 49548, 53677, 57806, 61935,
    4657, 528, 12915, 8786, 21173, 17044, 29431, 25302,
    37689, 33560, 45947, 41818, 54205, 50076, 62463, 58334,
    9314, 13379, 1056, 5121, 25830, 29895, 17572, 21637,
    42346, 46411, 34088, 38153, 58862, 62927, 50604, 54669,
    13907, 9842, 5649, 1584, 30423, 26358, 22165, 18100,
    46939, 42874, 38681, 34616, 63455, 59390, 55197, 51132,
    18628, 22757, 26758, 30887, 2112, 6241, 10242, 14371,
    51660, 55789, 59790, 63919, 35144, 39273, 43274, 47403,
    23285, 19156, 31415, 27286, 6769, 2640, 14899, 10770,
    56317, 52188, 64447, 60318, 39801, 35672, 47931, 43802,
    27814, 31879, 19684, 23749, 11298, 15363, 3168, 7233,
    60846, 64911, 52716, 56781, 44330, 48395, 36200, 40265,
    32407, 28342, 24277, 20212, 15891, 11826, 7761, 3696,
    65439, 61374, 57309, 53244, 48923, 44858, 40793, 36728,
    37256, 33193, 45514, 41451, 53516, 49453, 61774, 57711,
    4224, 161, 12482, 8419, 20484, 16421, 28742, 24679,
    33721, 37784, 41979, 46042, 49981, 54044, 58239, 62302,
    689, 4752, 8947, 13010, 16949, 21012, 25207, 29270,
    46570, 42443, 38312, 34185, 62830, 58703, 54572, 50445,
    13538, 9411, 5280, 1153, 29798, 25671, 21540, 17413,
    42971, 47098, 34713, 38840, 59231, 63358, 50973, 55100,
    9939, 14066, 1681, 5808, 26199, 30326, 17941, 22068,
    55628, 51565, 63758, 59695, 39368, 35305, 47498, 43435,
    22596, 18533, 30726, 26663, 6336, 2273, 14466, 10403,
    52093, 56156, 60223, 64286, 35833, 39896, 43963, 48026,
    19061, 23124, 27191, 31254, 2801, 6864, 10931, 14994,
    64814, 60687, 56684, 52557, 48554, 44427, 40424, 36297,
    31782, 27655, 23652, 19525, 15522, 11395, 7392, 3265,
    61215, 65342, 53085, 57212, 44955, 49082, 36825, 40952,
    28183, 32310, 20053, 24180, 11923, 16050, 3793, 7920
  >>

(***************************************************************************)
(* Python values                                                           *)
(***************************************************************************)
Byte == 0..255

(* None: a value that is no bytes object (no byte is negative). *)
None == <<-1>>

(* a ^ b on non-negative integers *)
RECURSIVE Xor(_, _)
Xor(a, b) ==
  IF a = 0 THEN b
  ELSE IF b = 0 THEN a
  ELSE ((a + b) % 2) + 2 * Xor(a \div 2, b \div 2)

(* a | b on non-negative integers *)
RECURSIVE BitOr(_, _)
BitOr(a, b) ==
  IF a = 0 THEN b
  ELSE IF b = 0 THEN a
  ELSE (IF a % 2 = 1 \/ b % 2 = 1 THEN 1 ELSE 0) + 2 * BitOr(a \div 2, b \div 2)

(* n.to_bytes(k, byteorder='little') raises OverflowError unless            *)
(* 0 <= n < 256^k.  Every integer of the model is below 2^31 < 256^4.       *)
Fits(n, k) == n >= 0 /\ (k >= 4 \/ n < 256 ^ k)

ToBytes(n, k) == [i \in 1..k |-> (n \div (256 ^ (i - 1))) % 256]

(* ord() of the characters the program encodes *)
Ord(c) ==
  CASE c = "0" -> 48 [] c = "1" -> 49 [] c = "2" -> 50 [] c = "3" -> 51
    [] c = "4" -> 52 [] c = "5" -> 53 [] c = "6" -> 54 [] c = "7" -> 55
    [] c = "8" -> 56 [] c = "9" -> 57
    [] c = "N" -> 78 [] c = "o" -> 111 [] c = "n" -> 110 [] c = "e" -> 101
    [] c = "r" -> 114 [] c = "u" -> 117 [] c = "s" -> 115

(* s.encode('utf-8') of an ASCII string, a string being the sequence of its *)
(* characters                                                               *)
Encode(s) == [i \in 1..Len(s) |-> Ord(s[i])]

(* str(deviceimei): 'None' for the default argument *)
Str(v) == IF v.none THEN <<"N", "o", "n", "e">> ELSE v.chars

(***************************************************************************)
(* Checksums                                                               *)
(***************************************************************************)
(* header_crc and data_crc fold one step over the bytes from first to last, *)
(* crc being the value before the byte.  The fold over header[lo..hi] is    *)
(* written as the fold over the left half followed by the fold over the     *)
(* right half, which is the same left-to-right loop.                        *)
header_crc_step(crc, b) == CRC8_TABLE[Xor(crc, b) + 1]

RECURSIVE header_crc_loop(_, _, _, _)
header_crc_loop(header, lo, hi, crc) ==
  IF lo > hi THEN crc
  ELSE IF lo = hi THEN header_crc_step(crc, header[lo])
  ELSE LET mid == (lo + hi) \div 2
           c   == header_crc_loop(header, lo, mid, crc)
       IN  IF c \in Byte THEN header_crc_loop(header, mid + 1, hi, c) ELSE c

header_crc(header) == header_crc_loop(header, 1, Len(header), 255)

data_crc_step(crc, b) ==
  Xor((crc * 256) % 65536, CRC16_TABLE[Xor(crc \div 256, b) + 1])

RECURSIVE data_crc_loop(_, _, _, _)
data_crc_loop(data, lo, hi, crc) ==
  IF lo > hi THEN crc
  ELSE IF lo = hi THEN data_crc_step(crc, data[lo])
  ELSE LET mid == (lo + hi) \div 2
           c   == data_crc_loop(data, lo, mid, crc)
       IN  IF c >= 0 THEN data_crc_loop(data, mid + 1, hi, c) ELSE c

data_crc(data) == data_crc_loop(data, 1, Len(data), 65535)

(***************************************************************************)
(* Field encodings of add_service                                          *)
(***************************************************************************)
(* get_date_time(value): value is datetime.now(), here in whole seconds     *)
(* since initial_date 2010-01-01 00:00:00; int() drops the fraction.        *)
get_date_time(value) == value - 180 * 60

(* The n bits, most significant first, of floor(r * 2^n / d), and the       *)
(* remainder of that division, for 0 <= r < d.                              *)
RECURSIVE ScaleBits(_, _, _)
ScaleBits(r, d, n) ==
  IF n = 0 THEN [q |-> <<>>, r |-> r]
  ELSE LET b    == IF 2 * r >= d THEN 1 ELSE 0
           rest == ScaleBits(2 * r - b * d, d, n - 1)
       IN  [q |-> <<b>> \o rest.q, r |-> rest.r]

(* little-endian bytes of a 32-bit number given by its bits *)
BitsToBytes(q) ==
  [j \in 1..4 |->
     LET o == 32 - 8 * j
     IN  128 * q[o + 1] + 64 * q[o + 2] + 32 * q[o + 3] + 16 * q[o + 4]
         + 8 * q[o + 5] + 4 * q[o + 6] + 2 * q[o + 7] + q[o + 8]]

(* little-endian bytes of n - 1, n > 0 *)
RECURSIVE DecBytes(_)
DecBytes(bs) ==
  IF bs = <<>> THEN <<>>
  ELSE IF Head(bs) > 0 THEN <<Head(bs) - 1>> \o Tail(bs)
  ELSE <<255>> \o DecBytes(Tail(bs))

(* int(abs(x) / full * 0xFFFFFFFF).to_bytes(4, 'little') for a coordinate   *)
(* x given in microdegrees (full: 90 or 180 degrees in microdegrees).       *)
(* floor(m * (2^32 - 1) / d) = floor(m * 2^32 / d) - [remainder < m] for    *)
(* m < d; it fits 4 bytes exactly when m <= d.                              *)
Abs(x) == IF x < 0 THEN -x ELSE x

CoordFits(x, full) == Abs(x) <= full

CoordBytes(x, full) ==
  LET m == Abs(x)
      s == ScaleBits(m, full, 32)
  IN  IF m = full THEN <<255, 255, 255, 255>>
      ELSE IF s.r < m THEN DecBytes(BitsToBytes(s.q))
      ELSE BitsToBytes(s.q)

(***************************************************************************)
(* Inputs                                                                  *)
(***************************************************************************)
(* successful appends explored in one behaviour *)
MaxAppends == 3

(* appends left, at the start of SpecLate, before record number 65535 is    *)
(* used up                                                                  *)
LateGap == 2

DeviceIds == {111111111}

DeviceImeis ==
  { [none |-> TRUE],
    [none |-> FALSE,
     chars |-> <<"8", "6", "5", "8", "1", "1", "1", "1", "1", "1", "1", "1",
                 "1", "1", "1">>] }

(* datetime.now(), in seconds since 2010-01-01 00:00:00: 2026-11-03 12:00 *)
Clock == {531403200}

(* record_types arguments: the four supported kinds and an unsupported one *)
RecordTypes == {1, 2, 4, 16, 99}

(* keyword arguments of a type-16 call: long and lat in microdegrees, speed *)
(* in km/h; the last two lack a required key                                *)
ExampleKwargs == [long |-> 40055205, lat |-> 47423826, speed |-> 90]

KwargsSet ==
  { ExampleKwargs,
    [long |-> -10000000, lat |-> 5000000, speed |-> 90],
    [long |-> 40055205, lat |-> 47423826],
    [speed |-> 90] }

NoKwargs == [k \in {} |-> 0]

(***************************************************************************)
(* EGTStrack.add_service                                                   *)
(***************************************************************************)
(* srt + srl + mservice *)
Subrecord(srt, mservice) == srt \o ToBytes(Len(mservice), 2) \o mservice

(* rl + rn + rfl + _oid + tm + sst + rst, followed by the subrecord *)
Record(sub, rn, rfl, oid, tm, sst, rst) ==
  ToBytes(Len(sub), 2) \o rn \o rfl \o oid \o tm \o sst \o rst \o sub

(* type 1: terminal identity *)
mservice1(self) ==
  ToBytes(self._tid, 4) \o <<158>> \o Encode(self._imei)
    \o Encode(<<"0", "0", "0", "0", "0", "0", "0", "0",
                "0", "0", "0", "0", "0", "0", "0", "0">>)
    \o Encode(<<"r", "u", "s">>)
    \o Encode(<<"0", "0", "0", "0", "0", "0", "0", "0",
                "0", "0", "0", "0", "0", "0", "0">>)

(* type 2: module data; b'\x11111111' is \x11 and six characters '1',       *)
(* b'\x1111' is \x11 and two *)
mservice2 ==
  <<3>> \o <<17, 49, 49, 49, 49, 49, 49>> \o <<17, 49, 49>> \o <<17, 49, 49>>
    \o <<1>> \o <<1>> \o <<0>> \o <<0>> \o <<17, 49, 49, 49, 49, 49, 49>>

(* type 4: auth/service identity *)
mservice4(self) ==
  <<2>> \o <<2>> \o ToBytes(self._tid, 4) \o <<2>> \o Encode(self._imei)

(* type 16: position data *)
llflags(kwargs) ==
  LET f1 == IF kwargs.long < 0 THEN BitOr(1, 2) ELSE 1
  IN  IF kwargs.lat < 0 THEN BitOr(f1, 4) ELSE f1

mservice16(kwargs, ntm) ==
  ntm \o CoordBytes(kwargs.lat, 90000000) \o CoordBytes(kwargs.long, 180000000)
    \o ToBytes(llflags(kwargs), 1) \o ToBytes(kwargs.speed * 10, 2)
    \o ToBytes(0, 1) \o ToBytes(1200, 3) \o <<1>> \o <<0>>

(* NextRn with a slip that skips a record number *)
NextRn_Skip(rn) == rn + 2

(* self._rn += 1 *)
NextRn(rn) == rn + 1

(* add_service(record_types, **kwargs) on the session self, with now the    *)
(* readings of datetime.now() in call order: the session it leaves and the  *)
(* exception it raises ("" when it returns)                                 *)
add_service(self, record_types, kwargs, now) ==
  LET s0  == IF self._service = None THEN [self EXCEPT !._service = <<>>]
             ELSE self
      rn  == ToBytes(self._rn, 2)
      oid == ToBytes(self._tid, 4)
      tm  == ToBytes(get_date_time(now[1]), 4)
      ntm == ToBytes(get_date_time(now[2]), 4)
      srt == ToBytes(record_types, 1)
      s1  == [s0 EXCEPT !._pt = <<1>>]
      Done(s, rec) ==
        [self |-> [s EXCEPT !._service = @ \o rec, !._rn = NextRn(@)],
         exc  |-> ""]
      Raise(s, e) == [self |-> s, exc |-> e]
  IN  IF ~Fits(self._rn, 2) THEN Raise(s0, "OverflowError")
      ELSE IF record_types = 1 THEN
        IF ~(Fits(self._tid, 4) /\ Fits(get_date_time(now[1]), 4))
        THEN Raise(s0, "OverflowError")
        ELSE Done(s1, Record(Subrecord(srt, mservice1(self)),
                             rn, <<5>>, oid, tm, <<1>>, <<1>>))
      ELSE IF record_types = 2 THEN
        IF ~(Fits(self._tid, 4) /\ Fits(get_date_time(now[1]), 4))
        THEN Raise(s0, "OverflowError")
        ELSE Done(s0, Record(Subrecord(srt, mservice2),
                             rn, <<5>>, oid, tm, <<1>>, <<1>>))
      ELSE IF record_types = 16 THEN
        IF ~(Fits(self._tid, 4) /\ Fits(get_date_time(now[1]), 4))
        THEN Raise(s0, "OverflowError")
        ELSE IF ~({"long", "lat"} \subseteq DOMAIN kwargs)
        THEN Raise(s1, "KeyError")
        ELSE IF ~(CoordFits(kwargs.long, 180000000)
                  /\ CoordFits(kwargs.lat, 90000000)
                  /\ Fits(get_date_time(now[2]), 4))
        THEN Raise(s1, "OverflowError")
        ELSE IF ~("speed" \in DOMAIN kwargs)
        THEN Raise(s1, "KeyError")
        ELSE IF ~Fits(kwargs.speed * 10, 2)
        THEN Raise(s1, "OverflowError")
        ELSE Done(s1, Record(Subrecord(srt, mservice16(kwargs, ntm)),
                             rn, <<5>>, oid, tm, <<2>>, <<2>>))
      ELSE IF record_types = 4 THEN
        IF ~Fits(self._tid, 4)
        THEN Raise(s1, "OverflowError")
        ELSE Done(s1, ToBytes(Len(Subrecord(srt, mservice4(self))), 2)
                        \o rn \o <<0>> \o <<1>> \o <<1>>
                        \o Subrecord(srt, mservice4(self)))
      ELSE Raise(s0, "UnboundLocalError")

(***************************************************************************)
(* EGTStrack.bytes and EGTStrack.new_message                               *)
(***************************************************************************)
(* the property bytes: the 10 header bytes before the header checksum *)
bytes(self) ==
  <<1>> \o <<0>> \o <<0>> \o <<11>> \o <<0>> \o self._fdl
    \o ToBytes(self._pid, 2) \o self._pt

(* NewPid taking the number of the last record instead of the next one *)
NewPid_LastRecord(rn) == rn - 1

(* self._pid = self._rn *)
NewPid(rn) == rn

(* FrameDataLength in the byte order of the commented-out                   *)
(* to_bytes(2, byteorder='big')                                             *)
FrameDataLength_BigEndian(service) ==
  <<(Len(service) \div 256) % 256, Len(service) % 256>>

(* self._fdl = len(self._service).to_bytes(2, byteorder='little') *)
FrameDataLength(service) == ToBytes(Len(service), 2)

(* Packet without the header checksum byte *)
Packet_NoHeaderCrc(getBytes, hcs, service, sfrcs) ==
  getBytes \o service \o sfrcs

(* getBytes + self._hcs + self._service + self._sfrcs *)
Packet(getBytes, hcs, service, sfrcs) == getBytes \o hcs \o service \o sfrcs

(* new_message() on the session self: the session it leaves, the exception  *)
(* it raises ("" when it returns) and the bytes it returns                  *)
new_message(self) ==
  LET s1 == [self EXCEPT !._pid = NewPid(self._rn)]
      s2 == [s1 EXCEPT !._sfrcs = ToBytes(data_crc(self._service), 2)]
      s3 == [s2 EXCEPT !._fdl = FrameDataLength(self._service)]
      getBytes == bytes(s3)
      s4 == [s3 EXCEPT !._hcs = ToBytes(header_crc(getBytes), 1)]
      Raise(s, e) == [self |-> s, exc |-> e, ret |-> <<>>]
  IN  IF self._service = None THEN Raise(self, "TypeError")
      ELSE IF ~Fits(Len(self._service), 2) THEN Raise(s2, "OverflowError")
      ELSE IF ~Fits(s3._pid, 2) THEN Raise(s3, "OverflowError")
      ELSE [self |-> [s4 EXCEPT !._service = None],
            exc  |-> "",
            ret  |-> Packet(getBytes, s4._hcs, s4._service, s4._sfrcs)]

(***************************************************************************)
(* The session                                                             *)
(***************************************************************************)
VARIABLES
  _tid, _imei, _pt, _hcs, _sfrcs, _service, _fdl, _pid, _rn,  \* EGTStrack fields
  op,        \* the last call: "__init__", "add_service" or "new_message"
  args,      \* its arguments
  exc,       \* the exception it raised, "" when it returned
  ret,       \* the bytes it returned, <<>> when it returned none
  numbers,   \* the record numbers written into the appended records, in order
  pending,   \* the records appended since the last packet, in order
  lastPid    \* packet_id of the last packet returned, 0 before the first

(* the session's fields are those of s *)
Fields(s) ==
  /\ _tid = s._tid
  /\ _imei = s._imei
  /\ _pt = s._pt
  /\ _hcs = s._hcs
  /\ _sfrcs = s._sfrcs
  /\ _service = s._service
  /\ _fdl = s._fdl
  /\ _pid = s._pid
  /\ _rn = s._rn

vars == <<_tid, _imei, _pt, _hcs, _sfrcs, _service, _fdl, _pid, _rn,
          op, args, exc, ret, numbers, pending, lastPid>>

Self ==
  [_tid |-> _tid, _imei |-> _imei, _pt |-> _pt, _hcs |-> _hcs,
   _sfrcs |-> _sfrcs, _service |-> _service, _fdl |-> _fdl, _pid |-> _pid,
   _rn |-> _rn]

(* Constructed with the counters starting at 0 *)
Constructed_FromZero(deviceid, deviceimei) ==
  [_tid |-> deviceid, _imei |-> Str(deviceimei), _pt |-> <<1>>,
   _hcs |-> <<0>>, _sfrcs |-> 0, _service |-> None, _fdl |-> <<0, 48, 48>>,
   _pid |-> 0, _rn |-> 0]

(* the fields before add_service(1) runs in __init__; b'\x0000' is the      *)
(* three bytes \x00 '0' '0'                                                 *)
Constructed(deviceid, deviceimei) ==
  [_tid |-> deviceid, _imei |-> Str(deviceimei), _pt |-> <<1>>,
   _hcs |-> <<0>>, _sfrcs |-> 0, _service |-> None, _fdl |-> <<0, 48, 48>>,
   _pid |-> 1, _rn |-> 1]

(* EGTStrack(deviceid, deviceimei): deviceid is int(deviceid) already *)
__init__(deviceid, deviceimei, now) ==
  add_service(Constructed(deviceid, deviceimei), 1, NoKwargs, <<now, now>>).self

(***************************************************************************)
(* Reading records and packets back                                        *)
(***************************************************************************)
Le16(b, i) == b[i] + 256 * b[i + 1]

(* the record number of a record: its bytes 2-3 *)
RecordNumber(rec) == Le16(rec, 3)

(* the bytes a call appended to the pending buffer *)
Appended(before, after) ==
  SubSeq(after, (IF before = None THEN 0 ELSE Len(before)) + 1, Len(after))

RECURSIVE Concat(_)
Concat(recs) == IF recs = <<>> THEN <<>> ELSE Head(recs) \o Concat(Tail(recs))

(* fields of a packet *)
PacketFdl(p)     == Le16(p, 6)
PacketId(p)      == Le16(p, 8)
PacketHeader(p)  == SubSeq(p, 1, 10)
PacketRecords(p) == SubSeq(p, 12, Len(p) - 2)
PacketCrc(p)     == Le16(p, Len(p) - 1)

(***************************************************************************)
(* Specifications                                                          *)
(***************************************************************************)
Init ==
  \E deviceid \in DeviceIds, deviceimei \in DeviceImeis, now \in Clock :
    LET s == __init__(deviceid, deviceimei, now)
    IN  /\ Fields(s)
        /\ op = "__init__"
        /\ args = <<deviceid>>
        /\ exc = ""
        /\ ret = <<>>
        /\ numbers = <<RecordNumber(s._service)>>
        /\ pending = <<s._service>>
        /\ lastPid = 0

Assign(s) ==
  /\ _tid' = s._tid
  /\ _imei' = s._imei
  /\ _pt' = s._pt
  /\ _hcs' = s._hcs
  /\ _sfrcs' = s._sfrcs
  /\ _service' = s._service
  /\ _fdl' = s._fdl
  /\ _pid' = s._pid
  /\ _rn' = s._rn

AddService ==
  /\ Len(numbers) < MaxAppends
  /\ \E record_types \in RecordTypes, n1 \in Clock :
       \E kwargs \in (IF record_types = 16 THEN KwargsSet ELSE {NoKwargs}),
          n2 \in (IF record_types = 16 THEN {n1, n1 + 1} ELSE {n1}) :
         \E r \in {add_service(Self, record_types, kwargs, <<n1, n2>>)} :
         LET rec == Appended(_service, r.self._service)
         IN  /\ Assign(r.self)
             /\ op' = "add_service"
             /\ args' = <<record_types, kwargs>>
             /\ exc' = r.exc
             /\ ret' = <<>>
             /\ numbers' = IF r.exc = "" THEN Append(numbers, RecordNumber(rec))
                           ELSE numbers
             /\ pending' = IF r.exc = "" THEN Append(pending, rec) ELSE pending
             /\ lastPid' = lastPid

NewMessage ==
  \E r \in {new_message(Self)} :
      /\ Assign(r.self)
      /\ op' = "new_message"
      /\ args' = <<>>
      /\ exc' = r.exc
      /\ ret' = r.ret
      /\ numbers' = numbers
      /\ pending' = IF r.exc = "" THEN <<>> ELSE pending
      /\ lastPid' = IF r.exc = "" THEN PacketId(r.ret) ELSE lastPid

Next == AddService \/ NewMessage

Spec == Init /\ [][Next]_vars

(* A session late in its life: LateRn - 1 records appended, the last one a  *)
(* type-4 record sent alone in the packet just returned.  new_message       *)
(* overwrites _pid, _sfrcs, _fdl, _hcs and _service, so the fields are      *)
(* those of every session with this history.                                *)
LateRn == 65536 - LateGap

InitLate ==
  \E deviceid \in DeviceIds, deviceimei \in DeviceImeis :
    LET prior == [Constructed(deviceid, deviceimei) EXCEPT !._rn = LateRn - 1]
        r     == new_message(add_service(prior, 4, NoKwargs, <<0, 0>>).self)
        s     == r.self
    IN  /\ Fields(s)
        /\ op = "new_message"
        /\ args = <<>>
        /\ exc = r.exc
        /\ ret = r.ret
        /\ numbers = <<>>
        /\ pending = <<>>
        /\ lastPid = PacketId(r.ret)

SpecLate == InitLate /\ [][Next]_vars

(***************************************************************************)
(* Properties                                                              *)
(***************************************************************************)
(* the last call was a new_message that returned the packet ret *)
Emitted == op = "new_message" /\ exc = ""

(* the step is a new_message call that returns a packet *)
Emits == op' = "new_message" /\ exc' = ""

(* the subrecord type of a record with the common 15-byte header *)
SubrecordType(rec) == rec[16]

(* where the second record of a packet starts, the first one having the     *)
(* common 15-byte header                                                    *)
SecondRecordAt(p) == 12 + 15 + Le16(p, 12)

(* C1: the record numbers written into the appended subrecords are          *)
(* 1, 2, 3, ... in append order: they start at 1, rise by exactly 1, and    *)
(* new_message neither resets nor skips a number.                           *)
C1_RecordNumbering == \A i \in 1..Len(numbers) : numbers[i] = i

(* C1 witness: a record was appended after a packet had been returned, as   *)
(* the third record of the session.                                         *)
C1_Witness ==
  /\ op = "add_service" /\ exc = ""
  /\ lastPid # 0
  /\ Len(numbers) = 3 /\ Len(pending) = 1

(* C2 as claimed: an add_service call that fails for an unsupported record  *)
(* type or a missing lat/long/speed keyword leaves the pending buffer and   *)
(* the record counter as they were (an empty buffer stays empty).           *)
C2_FailedAddLeavesState ==
  [][(op' = "add_service" /\ exc' \in {"UnboundLocalError", "KeyError"})
       => (_service' = _service /\ _rn' = _rn)]_vars

(* C3 as claimed: a returned packet leaves the pending buffer empty, and a  *)
(* new_message call with no record appended since the last packet fails    *)
(* with the empty-buffer error (TypeError) and returns nothing.             *)
C3_SecondFinalizeFails ==
  [][/\ Emits => _service' = None
     /\ (op' = "new_message" /\ lastPid # 0 /\ pending = <<>>)
          => (exc' = "TypeError" /\ ret' = <<>>)]_vars

(* C4 as claimed: a new_message call that fails leaves packet_id, the       *)
(* stored frame_data_length, the stored payload checksum, the pending       *)
(* buffer and the record counter as they were.                              *)
C4_FailedFinalizeLeavesState ==
  [][(op' = "new_message" /\ exc' # "")
       => /\ _pid' = _pid
          /\ _service' = _service
          /\ _rn' = _rn
          /\ _fdl' = _fdl
          /\ _sfrcs' = _sfrcs]_vars

(* C5 as claimed: the record counter stays within 0..65535 and no           *)
(* add_service call fails for a counter that no longer fits 16 bits.        *)
C5_CounterWraps ==
  /\ _rn \in 0..65535
  /\ ~(op = "add_service" /\ exc = "OverflowError")

(* C6: in every packet returned, frame_data_length (offsets 5-6) is the     *)
(* byte length of the records appended since the previous packet, the       *)
(* record section is those records in append order, and the last two bytes  *)
(* are data_crc of them.                                                    *)
C6_Framing ==
  [][Emits => /\ PacketFdl(ret') = Len(Concat(pending))
              /\ PacketRecords(ret') = Concat(pending)
              /\ PacketCrc(ret') = data_crc(Concat(pending))]_vars

(* C6 witness: a packet holding all three records of the session, more than *)
(* 150 bytes of them, was returned.                                        *)
C6_Witness ==
  /\ Emitted
  /\ Len(numbers) = 3 /\ lastPid = 4 /\ args = <<>>
  /\ PacketFdl(ret) > 150
  /\ Len(ret) = PacketFdl(ret) + 13

(* C7: a new_message call that returns sets packet_id to the record counter *)
(* (one more than the number of the last appended record) and leaves the    *)
(* counter alone; the counter changes in add_service calls only.            *)
C7_PacketIdIsCounter ==
  [][/\ Emits => /\ _pid' = _rn
                 /\ PacketId(ret') = _rn
                 /\ _pid' = numbers[Len(numbers)] + 1
                 /\ _rn' = _rn
     /\ _rn' # _rn => op' = "add_service"]_vars

(* C7 witness: a packet was returned after the second record of the session.*)
C7_Witness == Emitted /\ numbers = <<1, 2>> /\ _pid = 3 /\ _rn = 3

(* C8: terminal 111111111, the type-1 record (the one the constructor       *)
(* appends) and then a type-16 record for longitude 40.055205, latitude     *)
(* 47.423826, speed 90 being the session's only appends, the first packet   *)
(* has header_length 0x0B, its record section is the two records, its last  *)
(* two bytes are their CRC-16 and its packet_id is 3.                       *)
C8_Example ==
  [][(/\ Emits
      /\ _tid = 111111111
      /\ lastPid = 0
      /\ Len(numbers) = 2
      /\ op = "add_service" /\ exc = ""
      /\ args[1] = 16 /\ args[2] = ExampleKwargs)
       => /\ Len(pending) = 2
          /\ SubrecordType(pending[1]) = 1
          /\ SubrecordType(pending[2]) = 16
          /\ ret'[4] = 11
          /\ PacketRecords(ret') = pending[1] \o pending[2]
          /\ PacketCrc(ret') = data_crc(pending[1] \o pending[2])
          /\ PacketId(ret') = 3]_vars

(* C8 witness: the first packet of terminal 111111111 was returned with     *)
(* packet_id 3, its second record a type-16 record carrying latitude        *)
(* 47.423826, longitude 40.055205 and speed 900.                            *)
C8_Witness ==
  /\ Emitted
  /\ _tid = 111111111
  /\ Len(numbers) = 2
  /\ PacketId(ret) = 3
  /\ LET at == SecondRecordAt(ret)
     IN  /\ ret[at + 15] = 16
         /\ SubSeq(ret, at + 22, at + 25) = <<233, 249, 228, 134>>
         /\ SubSeq(ret, at + 26, at + 29) = <<179, 167, 247, 56>>
         /\ SubSeq(ret, at + 31, at + 32) = <<132, 3>>

(* C9: in every packet returned, byte 10 is header_crc of bytes 0-9, those  *)
(* bytes hold this packet's frame_data_length and packet_id, header_length  *)
(* is 0x0B, and the packet is 10 + 1 + frame_data_length + 2 bytes long.    *)
C9_PacketLayout ==
  Emitted =>
    /\ Len(ret) >= 13
    /\ ret[11] = header_crc(PacketHeader(ret))
    /\ ret[4] = 11
    /\ Len(ret) = PacketFdl(ret) + 13
    /\ PacketId(ret) = _rn
    /\ SubSeq(ret, 6, 7) = _fdl

(* C9 witness: a packet with packet_id 4 and fewer than 50 record bytes was *)
(* returned; the session's first record is longer, so an earlier packet of  *)
(* another length came before it.                                           *)
C9_Witness ==
  /\ Emitted
  /\ numbers = <<1, 2, 3>> /\ _pid = 4
  /\ PacketFdl(ret) > 0 /\ PacketFdl(ret) < 50

(* C10 as claimed: every packet returned has a packet_id greater than the   *)
(* one returned before it and holds at least one record.                    *)
C10_PacketIdsIncrease ==
  [][Emits => /\ PacketId(ret') > lastPid
              /\ pending # <<>>
              /\ PacketFdl(ret') > 0]_vars
=============================================================================
